---------------------------- MODULE Spec2Model ----------------------------
(***************************************************************************)
(* Percent-encoding (encode), validation (validate_urlencoded_str,         *)
(* validate_percent_encoding) and decoding (decode) of src/src/lib.rs.     *)
(*                                                                         *)
(* A Rust `char` is modelled by its code point (a natural number), a       *)
(* `&str` / `String` by the sequence of its code points, a byte by a       *)
(* number in 0..255 and a `Vec<u8>` / `&[u8]` by a sequence of bytes.      *)
(* A Result is a record whose field `kind` is "Ok" or the name of the      *)
(* FromUrlEncodingError variant; a panic (a failed unwrap) is the record   *)
(* of kind "Panic".                                                        *)
(***************************************************************************)
EXTENDS Integers, Sequences, FiniteSets, TLC

VARIABLES
    text,             \* the text handed to encode / decode by the caller
    pc,               \* "start", "encoded", "decoded" or "roundtrip"
    escaped,          \* encode's return value (its local `escaped`)
    data,             \* the argument of the last decode call
    unescaped_bytes,  \* decode's local buffer when its loop ended
    break_taken,      \* decode's loop left through the `_ => break` arm
    result            \* decode's return value

vars == <<text, pc, escaped, data, unescaped_bytes, break_taken, result>>

-----------------------------------------------------------------------------
(* Bounds of the checked inputs.                                           *)

\* An input is the concatenation of at most MaxChunks chunks of Chunks.
MaxChunks == 3

\* '%'
PERCENT == 37

\* The pieces inputs are assembled from: single characters of every class
\* the three functions distinguish, and percent-triplets (upper and lower
\* case) whose bytes are the parts of multi-byte UTF-8 sequences.
Chunks ==
    { <<PERCENT>>,                          \* "%"
      <<50>>,                               \* "2"  unreserved, hex digit
      <<122>>,                              \* "z"  unreserved, no hex digit
      <<32>>,                               \* " "  ASCII, not unreserved
      <<9>>,                                \* TAB  a byte below 0x10
      <<233>>,                              \* U+00E9, 2 bytes of UTF-8
      <<8364>>,                             \* U+20AC, 3 bytes of UTF-8
      <<128126>>,                           \* U+1F47E, 4 bytes of UTF-8
      <<PERCENT, 99, 51>>,                  \* "%c3"
      <<PERCENT, 65, 57>>,                  \* "%A9"
      <<PERCENT, 70, 48, PERCENT, 57, 70>>, \* "%F0%9F"
      <<PERCENT, 57, 49, PERCENT, 66, 69>>, \* "%91%BE"
      <<PERCENT, 69, 68, PERCENT, 65, 48>>  \* "%ED%A0"
    }

RECURSIVE Flatten(_)
Flatten(cs) == IF cs = <<>> THEN <<>> ELSE Head(cs) \o Flatten(Tail(cs))

Inputs == { Flatten(cs) : cs \in UNION { [1..n -> Chunks] : n \in 0..MaxChunks } }

-----------------------------------------------------------------------------
(* The results.                                                            *)

Ok(t) == [kind |-> "Ok", text |-> t]
OkUnit == [kind |-> "Ok"]
UriCharacterError(c, i) == [kind |-> "UriCharacterError", character |-> c, index |-> i]
Utf8CharacterError(bs) == [kind |-> "Utf8CharacterError", bytes |-> bs]
Panic == [kind |-> "Panic"]
NoResult == [kind |-> "None"]

-----------------------------------------------------------------------------
(* UTF-8: str::as_bytes / str::bytes / str::char_indices / from_utf8.      *)

\* char::len_utf8: the number of bytes of the UTF-8 encoding of code point c.
len_utf8(c) == IF c < 128 THEN 1 ELSE IF c < 2048 THEN 2 ELSE IF c < 65536 THEN 3 ELSE 4

\* The UTF-8 encoding of one code point.
encode_utf8(c) ==
    IF c < 128 THEN <<c>>
    ELSE IF c < 2048 THEN <<192 + (c \div 64), 128 + (c % 64)>>
    ELSE IF c < 65536 THEN
        <<224 + (c \div 4096), 128 + ((c \div 64) % 64), 128 + (c % 64)>>
    ELSE <<240 + (c \div 262144), 128 + ((c \div 4096) % 64),
           128 + ((c \div 64) % 64), 128 + (c % 64)>>

\* data.as_bytes() / data.bytes(): the UTF-8 bytes of a str.
RECURSIVE as_bytes(_)
as_bytes(s) == IF s = <<>> THEN <<>> ELSE encode_utf8(Head(s)) \o as_bytes(Tail(s))

\* The byte offset of the k-th character (1-based k) of s.
RECURSIVE byte_offset(_, _)
byte_offset(s, k) == IF k <= 1 THEN 0 ELSE byte_offset(s, k - 1) + len_utf8(s[k - 1])

\* data.char_indices(): the pairs (byte offset, char) of a str, in order.
char_indices(s) == [k \in 1..Len(s) |-> <<byte_offset(s, k), s[k]>>]

InRange(b, lo, hi) == lo <= b /\ b <= hi
IsCont(bs, k) == k <= Len(bs) /\ InRange(bs[k], 128, 191)

\* The width of the well-formed UTF-8 sequence starting at bs[k], 0 if none
\* starts there (the ranges of the Unicode standard, table 3-7, which
\* core::str::from_utf8 enforces: no overlong form, no surrogate, at most
\* U+10FFFF).
utf8_width(bs, k) ==
    LET b == bs[k] IN
    IF b < 128 THEN 1
    ELSE IF InRange(b, 194, 223) THEN (IF IsCont(bs, k + 1) THEN 2 ELSE 0)
    ELSE IF InRange(b, 224, 239) THEN
        (IF /\ k + 1 <= Len(bs)
            /\ InRange(bs[k + 1], IF b = 224 THEN 160 ELSE 128,
                                  IF b = 237 THEN 159 ELSE 191)
            /\ IsCont(bs, k + 2)
         THEN 3 ELSE 0)
    ELSE IF InRange(b, 240, 244) THEN
        (IF /\ k + 1 <= Len(bs)
            /\ InRange(bs[k + 1], IF b = 240 THEN 144 ELSE 128,
                                  IF b = 244 THEN 143 ELSE 191)
            /\ IsCont(bs, k + 2)
            /\ IsCont(bs, k + 3)
         THEN 4 ELSE 0)
    ELSE 0

\* The code point a well-formed sequence of width w at bs[k] stands for.
utf8_char(bs, k, w) ==
    IF w = 1 THEN bs[k]
    ELSE IF w = 2 THEN (bs[k] % 32) * 64 + (bs[k + 1] % 64)
    ELSE IF w = 3 THEN (bs[k] % 16) * 4096 + (bs[k + 1] % 64) * 64 + (bs[k + 2] % 64)
    ELSE (bs[k] % 8) * 262144 + (bs[k + 1] % 64) * 4096
         + (bs[k + 2] % 64) * 64 + (bs[k + 3] % 64)

\* String::from_utf8 / str::from_utf8: Ok with the text, or kind "Err".
RECURSIVE from_utf8_loop(_, _, _)
from_utf8_loop(bs, k, acc) ==
    IF k > Len(bs) THEN Ok(acc)
    ELSE LET w == utf8_width(bs, k) IN
         IF w = 0 THEN [kind |-> "Err"]
         ELSE from_utf8_loop(bs, k + w, Append(acc, utf8_char(bs, k, w)))

from_utf8(bs) == from_utf8_loop(bs, 1, <<>>)

-----------------------------------------------------------------------------
(* encode (lib.rs 4-16).                                                   *)

\* A plausible slip: the space is passed through unescaped.
encode_accepted_plus_space(c) ==
    \/ InRange(c, 65, 90) \/ InRange(c, 97, 122) \/ InRange(c, 48, 57)
    \/ c \in {45, 95, 46, 126, 32}

\* The "accepted characters" arm of encode's match (line 9).
encode_accepted(c) ==
    \/ InRange(c, 65, 90) \/ InRange(c, 97, 122) \/ InRange(c, 48, 57)
    \/ c \in {45, 95, 46, 126}

\* A plausible slip: `{:x}` in place of `{:X}`.
lower_hex_digit(d) == IF d < 10 THEN 48 + d ELSE 87 + d

\* One upper-case hexadecimal digit, as `{:X}` prints it.
upper_hex_digit(d) == IF d < 10 THEN 48 + d ELSE 55 + d

\* `{:X}`: the upper-case hexadecimal digits of n, without padding.
RECURSIVE upper_hex(_)
upper_hex(n) ==
    IF n < 16 THEN <<upper_hex_digit(n)>>
    ELSE upper_hex(n \div 16) \o <<upper_hex_digit(n % 16)>>

\* A plausible slip: `{:X}` in place of `{:02X}`.
format_percent_unpadded(b) == <<PERCENT>> \o upper_hex(b)

\* format!("%{:02X}", b as u32) (line 12): '%', then the digits of b padded
\* with zeros on the left to a width of at least two.
format_percent(b) ==
    LET h == upper_hex(b) IN
    <<PERCENT>> \o (IF Len(h) < 2 THEN <<48>> \o h ELSE h)

\* The body of encode's for loop over the bytes, from byte k on (lines 6-14);
\* `*b as char` is the code point of value b.
RECURSIVE encode_loop(_, _, _)
encode_loop(bs, k, out) ==
    IF k > Len(bs) THEN out
    ELSE IF encode_accepted(bs[k]) THEN encode_loop(bs, k + 1, Append(out, bs[k]))
    ELSE encode_loop(bs, k + 1, out \o format_percent(bs[k]))

encode(s) == encode_loop(as_bytes(s), 1, <<>>)

-----------------------------------------------------------------------------
(* validate_urlencoded_str and validate_percent_encoding (lib.rs 47-86).   *)

\* char::to_digit(radix): the digit value of c, -1 for None.
to_digit(c, radix) ==
    LET d == IF InRange(c, 48, 57) THEN c - 48
             ELSE IF InRange(c, 97, 122) THEN c - 97 + 10
             ELSE IF InRange(c, 65, 90) THEN c - 65 + 10
             ELSE radix
    IN IF d < radix THEN d ELSE -1

\* A plausible slip: any ASCII letter or digit passes as a hex digit.
is_alphanumeric_digit(c, radix) == to_digit(c, 36) # -1

\* c.is_digit(radix) (line 71).
is_digit(c, radix) == to_digit(c, radix) # -1

\* A plausible slip: the validator lets the space through.
validate_accepted_plus_space(c) ==
    \/ InRange(c, 65, 90) \/ InRange(c, 97, 122) \/ InRange(c, 48, 57)
    \/ c \in {45, 95, 46, 126, 32}

\* The unreserved arm of the validator's match (line 51).
validate_accepted(c) ==
    \/ InRange(c, 65, 90) \/ InRange(c, 97, 122) \/ InRange(c, 48, 57)
    \/ c \in {45, 95, 46, 126}

\* A plausible slip: a bad lookahead character reported at the '%'.
RECURSIVE percent_encoding_at_percent(_, _, _, _)
percent_encoding_at_percent(iter, pos, current_idx, n) ==
    IF n = 2 THEN [res |-> OkUnit, pos |-> pos]
    ELSE IF pos > Len(iter) THEN
        [res |-> UriCharacterError(PERCENT, current_idx), pos |-> pos]
    ELSE IF is_digit(iter[pos][2], 16) THEN
        percent_encoding_at_percent(iter, pos + 1, current_idx, n + 1)
    ELSE [res |-> UriCharacterError(iter[pos][2], current_idx), pos |-> pos + 1]

\* A plausible slip: a truncated triplet reported where the input ran out.
RECURSIVE percent_encoding_at_end(_, _, _, _)
percent_encoding_at_end(iter, pos, current_idx, n) ==
    IF n = 2 THEN [res |-> OkUnit, pos |-> pos]
    ELSE IF pos > Len(iter) THEN
        [res |-> UriCharacterError(PERCENT, current_idx + n + 1), pos |-> pos]
    ELSE IF is_digit(iter[pos][2], 16) THEN
        percent_encoding_at_end(iter, pos + 1, current_idx, n + 1)
    ELSE [res |-> UriCharacterError(iter[pos][2], iter[pos][1]), pos |-> pos + 1]

\* validate_percent_encoding (lines 67-86), after n of its two iterations:
\* iter is the char_indices sequence, pos the next item iter.next() yields.
\* Returns the Result and the position the iterator is left at.
RECURSIVE validate_percent_encoding(_, _, _, _)
validate_percent_encoding(iter, pos, current_idx, n) ==
    IF n = 2 THEN [res |-> OkUnit, pos |-> pos]
    ELSE IF pos > Len(iter) THEN
        [res |-> UriCharacterError(PERCENT, current_idx), pos |-> pos]
    ELSE IF is_digit(iter[pos][2], 16) THEN
        validate_percent_encoding(iter, pos + 1, current_idx, n + 1)
    ELSE [res |-> UriCharacterError(iter[pos][2], iter[pos][1]), pos |-> pos + 1]

\* The while loop of validate_urlencoded_str (lines 49-61) from item pos on.
RECURSIVE validate_loop(_, _)
validate_loop(iter, pos) ==
    IF pos > Len(iter) THEN OkUnit
    ELSE LET idx == iter[pos][1]
             chr == iter[pos][2]
         IN IF validate_accepted(chr) THEN validate_loop(iter, pos + 1)
            ELSE IF chr = PERCENT THEN
                LET r == validate_percent_encoding(iter, pos + 1, idx, 0) IN
                IF r.res.kind # "Ok" THEN r.res ELSE validate_loop(iter, r.pos)
            ELSE UriCharacterError(chr, idx)

validate_urlencoded_str(s) == validate_loop(char_indices(s), 1)

-----------------------------------------------------------------------------
(* decode (lib.rs 18-42).                                                  *)

\* The unreserved arm of decode's match (line 27).
decode_accepted(c) ==
    \/ InRange(c, 65, 90) \/ InRange(c, 97, 122) \/ InRange(c, 48, 57)
    \/ c \in {45, 95, 46, 126}

\* The digits of u8::from_str_radix, folded left to right; -1 for Err
\* (an invalid digit, or a value above u8::MAX).
RECURSIVE radix_digits(_, _, _, _)
radix_digits(src, k, radix, acc) ==
    IF k > Len(src) THEN acc
    ELSE LET d == to_digit(src[k], radix) IN
         IF d = -1 \/ acc * radix + d > 255 THEN -1
         ELSE radix_digits(src, k + 1, radix, acc * radix + d)

\* A plausible slip: only upper-case digits are parsed.
from_str_radix_upper_only(src, radix) ==
    IF \E k \in 1..Len(src) : InRange(src[k], 97, 122) THEN -1
    ELSE radix_digits(src, 1, radix, 0)

\* u8::from_str_radix(src, radix) (line 31): -1 for Err. An empty string and
\* a lone sign are errors; one leading '+' is skipped.
from_str_radix(src, radix) ==
    IF src = <<>> THEN -1
    ELSE IF src[1] = 43 THEN (IF Len(src) = 1 THEN -1 ELSE radix_digits(src, 2, radix, 0))
    ELSE radix_digits(src, 1, radix, 0)

\* The while loop of decode (lines 25-38) over the bytes of data, from byte k
\* on. Returns the buffer, whether the loop was left through `break`, and
\* whether one of the unwrap calls of lines 29-31 panicked.
RECURSIVE decode_loop(_, _, _)
decode_loop(bs, k, buf) ==
    IF k > Len(bs) THEN [bytes |-> buf, brk |-> FALSE, panic |-> FALSE]
    ELSE IF decode_accepted(bs[k]) THEN decode_loop(bs, k + 1, Append(buf, bs[k]))
    ELSE IF bs[k] = PERCENT THEN
        IF k + 2 > Len(bs) THEN [bytes |-> buf, brk |-> FALSE, panic |-> TRUE]
        ELSE LET hex_str == from_utf8(<<bs[k + 1], bs[k + 2]>>) IN
             IF hex_str.kind # "Ok" THEN [bytes |-> buf, brk |-> FALSE, panic |-> TRUE]
             ELSE LET v == from_str_radix(hex_str.text, 16) IN
                  IF v = -1 THEN [bytes |-> buf, brk |-> FALSE, panic |-> TRUE]
                  ELSE decode_loop(bs, k + 3, Append(buf, v))
    ELSE [bytes |-> buf, brk |-> TRUE, panic |-> FALSE]

\* A plausible slip: a lossy conversion, which never fails.
decode_finish_lossy(buf) ==
    LET r == from_utf8(buf) IN
    IF r.kind = "Ok" THEN r ELSE Ok(<<65533>>)

\* Lines 39-41: the buffer turned into a String, or the Utf8CharacterError.
decode_finish(buf) ==
    LET r == from_utf8(buf) IN
    IF r.kind = "Ok" THEN r ELSE Utf8CharacterError(buf)

\* A plausible slip: the bytes are reconstructed before the input is validated.
decode_scan_first(s) ==
    LET scan == decode_loop(as_bytes(s), 1, <<>>)
        fin  == decode_finish(scan.bytes)
        v    == validate_urlencoded_str(s)
    IN IF scan.panic THEN [res |-> v, scan |-> scan]
       ELSE IF fin.kind # "Ok" THEN [res |-> fin, scan |-> scan]
       ELSE IF v.kind # "Ok" THEN [res |-> v, scan |-> scan]
       ELSE [res |-> fin, scan |-> scan]

\* decode (lines 18-42): its return value, and the state its loop ended in.
decode(s) ==
    LET v == validate_urlencoded_str(s) IN
    IF v.kind # "Ok" THEN
        [res |-> v, scan |-> [bytes |-> <<>>, brk |-> FALSE, panic |-> FALSE]]
    ELSE LET scan == decode_loop(as_bytes(s), 1, <<>>) IN
         IF scan.panic THEN [res |-> Panic, scan |-> scan]
         ELSE [res |-> decode_finish(scan.bytes), scan |-> scan]

-----------------------------------------------------------------------------
(* The callers: one call of encode or decode on a text, or decode applied  *)
(* to what encode returned.                                                *)

Init ==
    /\ text \in Inputs
    /\ pc = "start"
    /\ escaped = <<>>
    /\ data = <<>>
    /\ unescaped_bytes = <<>>
    /\ break_taken = FALSE
    /\ result = NoResult

CallEncode ==
    /\ pc = "start"
    /\ escaped' = encode(text)
    /\ pc' = "encoded"
    /\ UNCHANGED <<text, data, unescaped_bytes, break_taken, result>>

CallDecode(arg, next) ==
    LET d == decode(arg) IN
    /\ data' = arg
    /\ result' = d.res
    /\ unescaped_bytes' = d.scan.bytes
    /\ break_taken' = d.scan.brk
    /\ pc' = next
    /\ UNCHANGED <<text, escaped>>

DecodeText == pc = "start" /\ CallDecode(text, "decoded")

DecodeEscaped == pc = "encoded" /\ CallDecode(escaped, "roundtrip")

Next == CallEncode \/ DecodeText \/ DecodeEscaped

Spec == Init /\ [][Next]_vars

Decoded == pc \in {"decoded", "roundtrip"}

-----------------------------------------------------------------------------
(* The vocabulary of the properties, stated on texts and not on the code.  *)

\* RFC 3986 unreserved characters: A-Z a-z 0-9 - _ . ~
Unreserved ==
    (65..90) \cup (97..122) \cup (48..57) \cup {45, 95, 46, 126}

\* 0-9 A-F, and 0-9 A-F a-f
UpperHexChars == (48..57) \cup (65..70)
HexChars == UpperHexChars \cup (97..102)

\* The value of a hexadecimal digit, read case-insensitively.
HexValue(c) == IF c \in 48..57 THEN c - 48 ELSE IF c \in 65..70 THEN c - 55 ELSE c - 87

Drop(s, n) == SubSeq(s, n + 1, Len(s))
Take(s, n) == SubSeq(s, 1, n)

\* s is a run of unreserved characters and complete percent-triplets.
RECURSIVE WellFormedRun(_)
WellFormedRun(s) ==
    \/ s = <<>>
    \/ /\ s[1] \in Unreserved
       /\ WellFormedRun(Tail(s))
    \/ /\ Len(s) >= 3
       /\ s[1] = PERCENT
       /\ s[2] \in HexChars
       /\ s[3] \in HexChars
       /\ WellFormedRun(Drop(s, 3))

\* The first n characters of s are a well-formed run followed at most by
\* the '%' and the first hex digit of one more triplet.
PrefixShape(s, n) ==
    \E m \in 0..n :
        /\ n - m <= 2
        /\ WellFormedRun(Take(s, m))
        /\ n - m >= 1 => s[m + 1] = PERCENT
        /\ n - m = 2 => s[m + 2] \in HexChars

\* The p-th character of s is the first the grammar does not allow.
Offending(s, p) ==
    /\ PrefixShape(s, p - 1)
    /\ IF WellFormedRun(Take(s, p - 1))
       THEN s[p] \notin Unreserved \cup {PERCENT}
       ELSE s[p] \notin HexChars

\* The scan reaches a '%' at position p of s and fewer than two characters
\* follow it.
EndsInsideTriplet(s, p) ==
    /\ s[p] = PERCENT
    /\ WellFormedRun(Take(s, p - 1))
    /\ Len(s) - p < 2

\* The same, the character that follows (if any) being a hex digit.
TruncatedAt(s, p) ==
    /\ EndsInsideTriplet(s, p)
    /\ \A q \in (p + 1)..Len(s) : s[q] \in HexChars

\* Unicode scalar values.
IsScalar(c) == InRange(c, 0, 55295) \/ InRange(c, 57344, 1114111)

\* bs is the concatenation of the UTF-8 encodings of scalar values.
RECURSIVE WellFormedUtf8(_)
WellFormedUtf8(bs) ==
    \/ bs = <<>>
    \/ \E w \in 1..(IF Len(bs) < 4 THEN Len(bs) ELSE 4) :
           LET c == utf8_char(bs, 1, w) IN
           /\ IsScalar(c)
           /\ encode_utf8(c) = Take(bs, w)
           /\ WellFormedUtf8(Drop(bs, w))

\* The bytes an accepted input stands for, token by token.
RECURSIVE TokenBytes(_)
TokenBytes(s) ==
    IF s = <<>> THEN <<>>
    ELSE IF s[1] = PERCENT
         THEN <<16 * HexValue(s[2]) + HexValue(s[3])>> \o TokenBytes(Drop(s, 3))
         ELSE <<s[1]>> \o TokenBytes(Tail(s))

\* s with the hex digits inside its triplets put in upper / lower case, or
\* with their case swapped (s an accepted input).
UpperChar(c) == IF c \in 97..102 THEN c - 32 ELSE c
LowerChar(c) == IF c \in 65..70 THEN c + 32 ELSE c
SwapChar(c) == IF c \in 97..102 THEN c - 32 ELSE LowerChar(c)

RECURSIVE InTriplet(_, _)
InTriplet(s, k) ==
    \* whether the k-th character of the accepted input s is a digit of a triplet
    IF k <= 1 THEN FALSE
    ELSE IF s[k - 1] = PERCENT THEN TRUE
    ELSE k >= 3 /\ s[k - 2] = PERCENT

UpperTriplets(s) == [k \in 1..Len(s) |-> IF InTriplet(s, k) THEN UpperChar(s[k]) ELSE s[k]]
LowerTriplets(s) == [k \in 1..Len(s) |-> IF InTriplet(s, k) THEN LowerChar(s[k]) ELSE s[k]]
SwapTriplets(s) == [k \in 1..Len(s) |-> IF InTriplet(s, k) THEN SwapChar(s[k]) ELSE s[k]]

\* The offset in the output of encode of the token of the k-th input byte.
RECURSIVE TokenOffset(_, _)
TokenOffset(bs, k) ==
    IF k <= 1 THEN 0
    ELSE TokenOffset(bs, k - 1) + (IF bs[k - 1] \in Unreserved THEN 1 ELSE 3)

Accepted(s) == validate_urlencoded_str(s).kind = "Ok"

-----------------------------------------------------------------------------
(* The properties.                                                         *)

\* C1: round trip. For every text s, multi-byte characters and the empty
\* text included, decode(encode(s)) is Ok and the text it returns is s.
RoundTrip == pc = "roundtrip" => result = Ok(text)

RoundTripWitness ==
    /\ pc = "roundtrip"
    /\ result = Ok(text)
    /\ \E k \in 1..Len(text) : text[k] >= 65536
    /\ \E k \in 1..Len(text) : text[k] = PERCENT

\* C2: encode works byte by byte on the UTF-8 bytes of its input. Its output
\* is the in-order concatenation, over the bytes b, of the character b when b
\* is unreserved and otherwise of '%' and exactly two upper-case hexadecimal
\* digits of value b.
EncodeByteByByte ==
    pc = "encoded" =>
        LET bs == as_bytes(text) IN
        /\ Len(escaped) = TokenOffset(bs, Len(bs) + 1)
        /\ \A k \in 1..Len(bs) :
               LET o == TokenOffset(bs, k) IN
               IF bs[k] \in Unreserved
               THEN escaped[o + 1] = bs[k]
               ELSE /\ escaped[o + 1] = PERCENT
                    /\ escaped[o + 2] \in UpperHexChars
                    /\ escaped[o + 3] \in UpperHexChars
                    /\ 16 * HexValue(escaped[o + 2]) + HexValue(escaped[o + 3]) = bs[k]

\* TAB, U+1F47E, 'z' encode to "%09%F0%9F%91%BEz".
EncodeByteByByteWitness ==
    /\ pc = "encoded"
    /\ text = <<9, 128126, 122>>
    /\ escaped = <<PERCENT, 48, 57, PERCENT, 70, 48, PERCENT, 57, 70,
                   PERCENT, 57, 49, PERCENT, 66, 69, 122>>

\* C3: encode is total and what it returns passes the validator: it holds
\* only unreserved characters and well-formed percent-triplets.
EncodeOutputValid ==
    pc = "encoded" =>
        /\ validate_urlencoded_str(escaped) = OkUnit
        /\ WellFormedRun(escaped)

EncodeOutputValidWitness ==
    /\ pc = "encoded"
    /\ \E k \in 1..Len(text) : text[k] = 32
    /\ \E k \in 1..Len(text) : text[k] >= 128
    /\ \E k \in 1..Len(escaped) : escaped[k] \in Unreserved /\ escaped[k] = text[1]
    /\ validate_urlencoded_str(escaped) = OkUnit

\* C4: decode is fail-fast on syntax. For an input the validator rejects it
\* returns exactly the validator's error (same character, same index) and no
\* text, whatever the triplets before the offending character decode to; so
\* it returns Ok only for inputs the validator accepts.
DecodeFailFast ==
    Decoded =>
        LET v == validate_urlencoded_str(data) IN
        /\ v.kind # "Ok" =>
               /\ result = v
               /\ result.kind = "UriCharacterError"
               /\ "text" \notin DOMAIN result
        /\ result.kind = "Ok" => v.kind = "Ok"

\* "%c3 ": the triplet before the offending space is no valid UTF-8.
DecodeFailFastWitness ==
    /\ Decoded
    /\ data = <<PERCENT, 99, 51, 32>>
    /\ ~WellFormedUtf8(TokenBytes(Take(data, 3)))
    /\ result = UriCharacterError(32, 3)

\* C5: for an input the validator accepts, decode returns the
\* Utf8CharacterError exactly when the reconstructed bytes are not valid
\* UTF-8, and otherwise Ok with the text whose UTF-8 bytes they are; it
\* never returns a UriCharacterError for such an input.
DecodeUtf8Outcome ==
    (Decoded /\ Accepted(data)) =>
        /\ result.kind # "UriCharacterError"
        /\ IF WellFormedUtf8(unescaped_bytes)
           THEN /\ result.kind = "Ok"
                /\ as_bytes(result.text) = unescaped_bytes
                /\ \A k \in 1..Len(result.text) : IsScalar(result.text[k])
           ELSE result = Utf8CharacterError(unescaped_bytes)

\* "%F0%9F": a truncated four-byte sequence.
DecodeUtf8OutcomeWitness ==
    /\ Decoded
    /\ data = <<PERCENT, 70, 48, PERCENT, 57, 70>>
    /\ Accepted(data)
    /\ result = Utf8CharacterError(<<240, 159>>)

\* C6: the index of a UriCharacterError is the zero-based character position
\* of the reported character, the number of characters before it, also when
\* the input holds multi-byte characters.
IndexIsCharPosition ==
    (Decoded /\ result.kind = "UriCharacterError") =>
        /\ result.index < Len(data)
        /\ data[result.index + 1] = result.character
        /\ Offending(data, result.index + 1) \/ TruncatedAt(data, result.index + 1)

IndexIsCharPositionWitness ==
    /\ Decoded
    /\ result.kind = "UriCharacterError"
    /\ result.index >= 2
    /\ result.character >= 128
    /\ \E k \in 1..Len(data) : k > result.index + 1 /\ data[k] >= 128

\* C7 as stated: whenever the scan reaches a '%' after which the input ends
\* before two lookahead characters are available, decode fails with the
\* UriCharacterError for '%' at the index of that '%'.
TruncatedTripletAlways ==
    Decoded =>
        \A p \in 1..Len(data) :
            EndsInsideTriplet(data, p) => result = UriCharacterError(PERCENT, p - 1)

\* C7, amended: whenever the scan reaches a '%' after which the input ends
\* before two lookahead characters are available, and the one character
\* that follows the '%', if there is one, is a hex digit, decode fails with
\* the UriCharacterError for '%' at the index of that '%'.
TruncatedTriplet ==
    Decoded =>
        \A p \in 1..Len(data) :
            TruncatedAt(data, p) => result = UriCharacterError(PERCENT, p - 1)

\* A complete triplet, then '%' and one hex digit at the end of the input.
TruncatedTripletWitness ==
    /\ Decoded
    /\ Len(data) >= 5
    /\ TruncatedAt(data, Len(data) - 1)
    /\ result = UriCharacterError(PERCENT, Len(data) - 2)

\* C8: when the validator rejects an input because of a character that is
\* present (neither unreserved nor '%' outside a triplet, or no hex digit in
\* one of the two slots after a '%'), the error reports that character with
\* its own index, and it is the first offending one from the left: what
\* precedes it is a run of unreserved characters and complete triplets,
\* followed at most by the '%' and first hex digit of the triplet examined.
FirstOffendingCharacter ==
    Decoded =>
        /\ \A p \in 1..Len(data) :
               Offending(data, p) => result = UriCharacterError(data[p], p - 1)
        /\ (result.kind = "UriCharacterError" /\ ~TruncatedAt(data, result.index + 1)) =>
               Offending(data, result.index + 1)

\* "%2z": the 'z' in the second slot of the triplet, index 2.
FirstOffendingCharacterWitness ==
    /\ Decoded
    /\ data = <<PERCENT, 50, 122>>
    /\ Offending(data, 3)
    /\ result = UriCharacterError(122, 2)

\* C9: for an input the validator accepts, the buffer decode builds is the
\* in-order concatenation of one byte per token: an unreserved character
\* gives its ASCII byte, a triplet %XY the byte 16*value(X)+value(Y), the
\* digits read case-insensitively; so accepted inputs that differ only in the
\* case of the hex digits of their triplets decode to the same result.
ByteReconstruction ==
    (Decoded /\ Accepted(data)) =>
        /\ unescaped_bytes = TokenBytes(data)
        /\ \A variant \in {UpperTriplets(data), LowerTriplets(data), SwapTriplets(data)} :
               /\ Accepted(variant)
               /\ decode(variant).res = result

\* "%c3%A9z" decodes to U+00E9, 'z'.
ByteReconstructionWitness ==
    /\ Decoded
    /\ data = <<PERCENT, 99, 51, PERCENT, 65, 57, 122>>
    /\ unescaped_bytes = <<195, 169, 122>>
    /\ SwapTriplets(data) # data
    /\ result = Ok(<<233, 122>>)

\* C10: decode's second pass never takes the break arm and none of its
\* unwrap calls fails, for any input: once the validator has accepted the
\* input, every '%' the byte scan meets is followed by two ASCII hex digits
\* and every other byte is unreserved, so decode neither panics nor returns
\* a truncated result.
SecondPassNeverBreaks ==
    Decoded =>
        /\ ~break_taken
        /\ result.kind # "Panic"
        /\ Accepted(data) =>
               /\ WellFormedRun(as_bytes(data))
               /\ \A k \in 1..Len(data) : data[k] < 128
               /\ Len(unescaped_bytes) = Len(TokenBytes(data))

SecondPassNeverBreaksWitness ==
    /\ Decoded
    /\ Accepted(data)
    /\ ~break_taken
    /\ result.kind = "Ok"
    /\ Len(data) >= 7
    /\ \E k \in 1..Len(data) : data[k] = PERCENT
    /\ \E k \in 1..Len(data) : data[k] \in Unreserved /\ ~InTriplet(data, k)

=============================================================================
